---- MODULE Spec2Model ----
(***************************************************************************)
(* The approval chat daemon: a polling loop that reads the pending         *)
(* approval requests of an agent from the approval gateway, reads the chat *)
(* messages of each, answers the new user messages and records, per        *)
(* request, a checkpoint (last_checks) in a state file.                    *)
(*                                                                         *)
(* Three variants of the daemon are modelled, chosen by `variant`:         *)
(*   "universal_v2"  src/approval_chat_daemon_universal_v2.py              *)
(*   "multi_agent"   src/approval_chat_daemon_multi_agent.py               *)
(*   "v2"            src/approval_chat_daemon_v2.py                        *)
(* The first two are the class ApprovalChatDaemon and share their actions; *)
(* multi_agent makes one attempt per call and catches no exception but     *)
(* URLError and HTTPError.  A fourth variant, "universal" of               *)
(* src/approval_chat_daemon_universal.py, is the same class once more; it  *)
(* runs in the specification that compares the class daemons.              *)
(*                                                                         *)
(* Timestamps are ISO-8601 strings that the code compares as strings; they *)
(* are modelled by the naturals 0..MaxT in the same order, where           *)
(* DefaultLastCheck stands for '2000-01-01T00:00:00Z' and for every        *)
(* created_at that does not sort above it.                                 *)
(*                                                                         *)
(* The daemon reads the gateway only when it lists the approvals and when  *)
(* it fetches the messages of a request, so the gateway's own steps are    *)
(* taken between cycles and before a fetch: a message posted while a batch *)
(* is being answered is seen exactly as one posted right after it.         *)
(***************************************************************************)
EXTENDS Integers, Sequences, FiniteSets, TLC

\* ------------------------------------------------------------------ bounds
\* the latest time
MaxT == 2
\* chat messages per request
MaxMsgs == 2
\* agent replies the gateway counts per message
MaxReplies == 2

\* ------------------------------------------------------- program constants
\* '2000-01-01T00:00:00Z', the default of last_checks.get in process_approval
DefaultLastCheck == 0
\* RETRY_DELAYS = [0, 1, 2]
RETRY_DELAYS == <<0, 1, 2>>
\* API_TIMEOUT = 10  # seconds: the timeout of urlopen in _api_call
API_TIMEOUT == 10
\* POLL_INTERVAL = 5   # seconds, of approval_chat_daemon_v2
POLL_INTERVAL == 5
\* poll_interval: int = 5 of __init__, and the default of --poll-interval
DefaultPollInterval == 5

\* the approval requests the gateway can hold, in the order it lists them
AllRequests == <<"R1", "R2">>
Requests == {AllRequests[i] : i \in 1..Len(AllRequests)}
Variants == {"universal_v2", "multi_agent", "v2"}
\* the variants that are the class ApprovalChatDaemon; "universal" is
\* src/approval_chat_daemon_universal.py, whose _save_state, _api_call,
\* process_approval, poll_once and run_continuous are those of multi_agent
ClassDaemons == {"universal_v2", "multi_agent", "universal"}

\* None, for a value that is not set
None == -1
\* no webhook endpoint is configured
NoUrl == "none"
\* no call of the client has been made, and nothing was returned
NoCall == [name |-> "none", outcome |-> "none", approvals |-> <<>>]
NoReturn == [kind |-> "none", dict |-> [approved |-> FALSE, status |-> "none"],
             list |-> <<>>]
\* deliver has not been called
NoDelivery == [delivered |-> FALSE, via |-> "none"]
\* what a chat message can be: its sender, and whether its text is blank
\* after strip()
MsgKinds == {<<"user", "text">>, <<"user", "blank">>,
             <<"agent", "text">>, <<"other", "text">>}

VARIABLES
    variant,     \* which daemon runs
    healthy,     \* gateway: it has recovered, every call succeeds from now on
    clock,       \* the time, as the gateway and datetime.now() see it
    msgs,        \* gateway: request -> its chat messages, in arrival order
    status,      \* gateway: request -> "absent", "pending", "approved"
    replies,     \* gateway: request -> per message, agent replies received to it
    phase,       \* daemon: "down", "idle", "list", "approval", "send", "mark"
    now,         \* daemon: `now` of the running poll_once
    state,       \* daemon: self.state, [last_checks, last_poll]
    disk,        \* the state file
    pending,     \* daemon: approvals of the cycle still to process
    batch,       \* daemon: new messages of the request still to answer
    attempt,     \* daemon: attempt number inside _api_call
    acked,       \* history: <<r, id>> whose reply the gateway acknowledged
    persisted,   \* history: acked messages whose checkpoint reached the file
    batchOf,     \* history: request of the latest batch, or "none"
    batchAcked,  \* history: ids of the latest batch answered successfully
    batchFailed, \* history: ids of the latest batch whose reply failed
    fresh,       \* history: no poll cycle of this process has ended yet
    listed,      \* history: how the pending-approvals call of the cycle ended
    exit,        \* history: how the process ended, "none" while it runs
    notify_url,  \* dispatcher: the webhook endpoint of the agent, or NoUrl
    inbox,       \* dispatcher: the entries of the local inbox file
    delivery,    \* dispatcher: what the latest deliver returned
    call,        \* client: the latest call of ApprovalGatewayClient
    returned     \* client: what that call returned

vars == <<variant, healthy, clock, msgs, status, replies, phase, now, state, disk,
          pending, batch, attempt, acked, persisted, batchOf, batchAcked,
          batchFailed, fresh, listed, exit, notify_url, inbox, delivery,
          call, returned>>

gateway == <<clock, msgs, status>>
batchHistory == <<batchOf, batchAcked, batchFailed>>
history == <<acked, persisted, batchOf, batchAcked, batchFailed, listed>>
dispatcher == <<notify_url, inbox, delivery>>
client == <<call, returned>>

\* ----------------------------------------------------------------- helpers
Max(S) == CHOOSE x \in S : \A y \in S : y <= x

Reverse(s) == [i \in 1..Len(s) |-> s[Len(s) + 1 - i]]

Range(s) == {s[i] : i \in 1..Len(s)}

\* {'last_checks': {}, 'last_poll': None}
EmptyState == [last_checks |-> [r \in Requests |-> None], last_poll |-> None]

\* the state file: absent, holding a state, or cut short by a failed write
NoFile == [kind |-> "absent", content |-> EmptyState]
Truncated == [kind |-> "truncated", content |-> EmptyState]
FileOf(st) == [kind |-> "json", content |-> st]

\* ------------------------------------------------------------- the gateway
\* GET /api/bot/pending-approvals: every request of the agent with its status
ApprovalsResponse ==
    LET known == SelectSeq(AllRequests, LAMBDA r : status[r] # "absent")
    IN  [i \in 1..Len(known) |-> [id |-> known[i], status |-> status[known[i]]]]

\* the orders in which the gateway can list the messages
Orders == {"asc", "desc"}
\* a gateway that gives no messages of a request once it is decided
PendingMessagesOnly(r, order) ==
    IF status[r] = "pending" THEN msgs[r] ELSE <<>>
\* GET /api/chat-messages/<r>: the messages of r, oldest or newest first
MessagesResponse(r, order) ==
    IF order = "asc" THEN msgs[r] ELSE Reverse(msgs[r])

\* the gateway stores one more agent reply to message id of request r
Accept(r, id) ==
    [replies EXCEPT ![r][id] = IF @ < MaxReplies THEN @ + 1 ELSE @]

\* what an HTTP call can come to: "ok" a 2xx with the expected JSON; "error"
\* a URLError or HTTPError before the gateway acted; "malformed" a 2xx whose
\* body is not JSON (json.loads raises JSONDecodeError); "timeout" the
\* gateway acted and its response did not arrive within API_TIMEOUT (the
\* read raises TimeoutError, which is no URLError); and for a POST, "lost"
\* the gateway stored the reply and an HTTPError came back, "refused" a 2xx
\* without success = true
GetOutcomes == {"ok", "error", "malformed", "timeout"}
PostOutcomes == {"ok", "error", "lost", "refused", "malformed", "timeout"}
\* the outcomes that raise an exception _api_call does not catch
Raises(outcome) == outcome \in {"malformed", "timeout"}
\* the outcomes in which the gateway stored the reply of a POST
Reached(outcome) == outcome \in {"ok", "lost", "malformed", "timeout"}

\* the pending-approvals call of a cycle: not made yet, or how it ended and
\* the pending approvals it gave
NotListed == [result |-> "none", found |-> <<>>]
Listed(result, found) == [result |-> result, found |-> found]

\* ---------------------------------------------- state file, both variants
\* a _load_state that starts from the empty state whatever the file holds
LoadNothing(d) == EmptyState
\* _load_state: the file's content, or the empty state when the file is
\* absent or json.load fails
LoadState(d) == IF d.kind = "json" THEN d.content ELSE EmptyState

\* _save_state: open(state_file, 'w') and json.dump.  "ok": written;
\* "unwritable": open raised; "partial": the write raised after open had
\* truncated the file; "killed": the process died after open had truncated
\* the file and before json.dump had written all of it
SaveFailures == {"unwritable", "partial"}
SaveOutcomes == {"ok", "killed"} \cup SaveFailures
SaveState(d, st, o) ==
    CASE o = "ok" -> FileOf(st)
      [] o = "unwritable" -> d
      [] OTHER -> Truncated

\* ------------------ ApprovalChatDaemon of universal_v2 and multi_agent
\* _api_call: whether a failed attempt is followed by another one; only
\* universal_v2 loops over RETRY_DELAYS
MoreAttempts(n) == variant = "universal_v2" /\ n < Len(RETRY_DELAYS)

\* a daemon that catches none of the exceptions of a cycle
CatchesNone == FALSE
\* universal_v2 catches Exception around process_approval and around
\* poll_once, and IOError in _save_state; multi_agent catches none of them
CatchesAll == variant = "universal_v2"
\* _save_state raises when the file cannot be written
SaveRaises(save) == ~CatchesAll /\ save \in SaveFailures
\* the process does not get past _save_state
SaveStops(save) == save = "killed" \/ SaveRaises(save)
\* how the process ended, when a call with this outcome or the save after
\* it ended it
EndCause(outcome, save) ==
    IF ~Raises(outcome) /\ save = "killed" THEN "killed" ELSE "error"
\* the process ended in this step for this cause, or it still runs
Exits(cause) == exit' = IF phase' = "down" THEN cause ELSE "none"

\* a pending list that keeps the approvals of every status
KeepAll(approvals) == [i \in 1..Len(approvals) |-> approvals[i].id]
\* get_pending_approvals: the ids of the approvals with status 'pending'
PendingFilter(approvals) ==
    LET kept == SelectSeq(approvals, LAMBDA a : a.status = "pending")
    IN  [i \in 1..Len(kept) |-> kept[i].id]

\* the sender test of get_messages
IsUser(m) == m.sender = "user"
\* the comparison with >= in place of >
NewerOrEqual(m, t) == m.created_at >= t
NewerThan(m, t) == m.created_at > t
\* a get_messages that ignores `since`
AllUserMessages(messages, t) == SelectSeq(messages, IsUser)
\* get_messages: the user messages, newer than `since` when it is given
GetMessages(messages, t) ==
    LET users == SelectSeq(messages, IsUser)
    IN  IF t # None
        THEN SelectSeq(users, LAMBDA m : NewerThan(m, t))
        ELSE users

\* self.state['last_checks'].get(request_id, '2000-01-01T00:00:00Z')
LastCheck(st, r) ==
    IF st.last_checks[r] = None THEN DefaultLastCheck ELSE st.last_checks[r]

\* a checkpoint that only universal_v2 moves
AdvanceInV2Only(st, r, m) ==
    IF variant = "universal_v2"
    THEN [st EXCEPT !.last_checks[r] = m.created_at]
    ELSE st
\* self.state['last_checks'][request_id] = created_at
Advance(st, r, m) == [st EXCEPT !.last_checks[r] = m.created_at]

\* a last_poll update that starts from the empty state
ResetAndSetLastPoll(st, t) == [EmptyState EXCEPT !.last_poll = t]
\* self.state['last_poll'] = now
SetLastPoll(st, t) == [st EXCEPT !.last_poll = t]

\* the request whose messages are being handled
cur == Head(pending)

\* poll_once returns (or an exception leaves it) and the loop sleeps
ToIdle ==
    /\ phase' = "idle"
    /\ now' = None
    /\ pending' = <<>>
    /\ batch' = <<>>
    /\ attempt' = 1
    /\ fresh' = FALSE

\* the process ends: what it held in memory is gone
ProcessEnds ==
    /\ phase' = "down"
    /\ state' = EmptyState
    /\ now' = None
    /\ pending' = <<>>
    /\ batch' = <<>>
    /\ attempt' = 1
    /\ fresh' = FALSE
    /\ listed' = NotListed
    /\ batchOf' = "none"
    /\ batchAcked' = {}
    /\ batchFailed' = {}

\* the for loop of poll_once moves to the next approval
NextApproval ==
    /\ pending' = Tail(pending)
    /\ phase' = "approval"
    /\ batch' = <<>>
    /\ attempt' = 1
    /\ UNCHANGED <<now, fresh>>

\* the for loop of process_approval moves to the next message
NextMessage ==
    IF Len(batch) > 1
    THEN /\ batch' = Tail(batch)
         /\ attempt' = 1
         /\ UNCHANGED <<phase, pending, now, fresh>>
    ELSE NextApproval

\* run_continuous: the sleep is over; poll_once starts and calls
\* get_pending_approvals
PollOnce ==
    /\ variant \in ClassDaemons
    /\ phase = "idle"
    /\ phase' = "list"
    /\ now' = clock
    /\ listed' = NotListed
    /\ batchOf' = "none"
    /\ batchAcked' = {}
    /\ batchFailed' = {}
    /\ UNCHANGED <<client, dispatcher, variant, healthy, exit,
                   gateway, replies, state, disk, pending, batch,
                   attempt, fresh, acked, persisted>>

\* poll_once, lines 414-420: one attempt of the pending-approvals call
GetPendingApprovals(outcome, save) ==
    /\ variant \in ClassDaemons
    /\ phase = "list"
    /\ CASE outcome = "error" /\ MoreAttempts(attempt) ->
              /\ attempt' = attempt + 1
              /\ UNCHANGED <<phase, now, fresh, listed, state, disk, pending,
                             batch, batchHistory>>
         [] Raises(outcome) ->
              \* the exception leaves _api_call and poll_once
              IF CatchesAll
              THEN /\ ToIdle
                   /\ listed' = Listed("raised", <<>>)
                   /\ UNCHANGED <<state, disk, batchHistory>>
              ELSE /\ ProcessEnds
                   /\ UNCHANGED disk
         [] OTHER ->
              LET found == IF outcome = "ok"
                           THEN PendingFilter(ApprovalsResponse)
                           ELSE <<>>
                  result == IF outcome = "ok" THEN "ok" ELSE "unavailable"
                  new == SetLastPoll(state, now)
              IN  IF found = <<>>
                  THEN /\ disk' = SaveState(disk, new, save)
                       /\ IF SaveStops(save)
                          THEN ProcessEnds
                          ELSE /\ state' = new
                               /\ ToIdle
                               /\ listed' = Listed(result, <<>>)
                               /\ UNCHANGED batchHistory
                  ELSE /\ pending' = found
                       /\ phase' = "approval"
                       /\ attempt' = 1
                       /\ listed' = Listed(result, found)
                       /\ UNCHANGED <<now, fresh, state, disk, batch,
                                      batchHistory>>
    /\ Exits(EndCause(outcome, save))
    /\ UNCHANGED <<client, dispatcher, variant, healthy,
                   gateway, replies, acked, persisted>>

\* process_approval, lines 373-378: one attempt of the messages call
ProcessApproval(outcome, order) ==
    /\ variant \in ClassDaemons
    /\ phase = "approval"
    /\ pending # <<>>
    /\ CASE outcome = "error" /\ MoreAttempts(attempt) ->
              /\ attempt' = attempt + 1
              /\ UNCHANGED <<phase, now, fresh, listed, state, pending, batch,
                             batchHistory>>
         [] outcome = "ok" ->
              LET last_check == LastCheck(state, cur)
                  messages == GetMessages(MessagesResponse(cur, order),
                                          last_check)
              IN  /\ batchOf' = cur
                  /\ batchAcked' = {}
                  /\ batchFailed' = {}
                  /\ IF messages = <<>>
                     THEN NextApproval
                     ELSE /\ batch' = messages
                          /\ phase' = "send"
                          /\ attempt' = 1
                          /\ UNCHANGED <<now, fresh, pending>>
                  /\ UNCHANGED <<listed, state>>
         [] Raises(outcome) /\ ~CatchesAll ->
              \* the exception leaves poll_once and run_continuous
              ProcessEnds
         [] OTHER ->
              \* no result, or an exception that poll_once caught
              /\ NextApproval
              /\ UNCHANGED <<listed, state, batchHistory>>
    /\ Exits("error")
    /\ UNCHANGED <<client, dispatcher, variant, healthy,
                   gateway, replies, disk, acked, persisted>>

\* a process_approval that moves the checkpoint past a blank message
SkipBlankAdvancing ==
    /\ variant \in ClassDaemons
    /\ phase = "send"
    /\ Head(batch).text = "blank"
    /\ state' = Advance(state, cur, Head(batch))
    /\ NextMessage
    /\ UNCHANGED <<client, dispatcher, variant, healthy, exit,
                   gateway, replies, disk, history>>
\* process_approval, lines 383-385: a message that is blank after strip()
SkipBlank ==
    /\ variant \in ClassDaemons
    /\ phase = "send"
    /\ Head(batch).text = "blank"
    /\ NextMessage
    /\ UNCHANGED <<client, dispatcher, variant, healthy, exit,
                   gateway, replies, state, disk, history>>

\* process_approval, lines 392-400: one attempt of the POST of send_message
\* and what follows its result
SendMessage(outcome, save) ==
    /\ variant \in ClassDaemons
    /\ phase = "send"
    /\ Head(batch).text # "blank"
    /\ LET msg == Head(batch)
           new == Advance(state, cur, msg)
       IN  /\ replies' = IF Reached(outcome)
                         THEN Accept(cur, msg.id) ELSE replies
           /\ CASE outcome = "ok" ->
                     /\ disk' = SaveState(disk, new, save)
                     /\ acked' = acked \cup {<<cur, msg.id>>}
                     /\ persisted' = IF save = "ok"
                                     THEN persisted \cup {<<cur, msg.id>>}
                                     ELSE persisted
                     /\ IF SaveStops(save)
                        THEN ProcessEnds
                        ELSE /\ state' = new
                             /\ batchAcked' = batchAcked \cup {msg.id}
                             /\ NextMessage
                             /\ UNCHANGED <<listed, batchOf, batchFailed>>
                [] outcome \in {"error", "lost"} /\ MoreAttempts(attempt) ->
                     /\ attempt' = attempt + 1
                     /\ UNCHANGED <<phase, now, fresh, listed, pending, batch,
                                    state, disk, acked, persisted,
                                    batchHistory>>
                [] Raises(outcome) ->
                     IF CatchesAll
                     THEN \* poll_once catches the exception
                          /\ NextApproval
                          /\ UNCHANGED <<listed, state, disk, acked,
                                         persisted, batchHistory>>
                     ELSE /\ ProcessEnds
                          /\ UNCHANGED <<disk, acked, persisted>>
                [] OTHER ->
                     \* send_message returned a false value
                     /\ batchFailed' = batchFailed \cup {msg.id}
                     /\ NextMessage
                     /\ UNCHANGED <<listed, state, disk, acked, persisted,
                                    batchOf, batchAcked>>
    /\ Exits(EndCause(outcome, save))
    /\ UNCHANGED <<client, dispatcher, variant, healthy, gateway>>

\* poll_once, lines 429-432: every approval has been processed
FinishPoll(save) ==
    /\ variant \in ClassDaemons
    /\ phase = "approval"
    /\ pending = <<>>
    /\ LET new == SetLastPoll(state, now)
       IN  /\ disk' = SaveState(disk, new, save)
           /\ IF SaveStops(save)
              THEN ProcessEnds
              ELSE /\ state' = new
                   /\ ToIdle
                   /\ UNCHANGED <<listed, batchHistory>>
    /\ Exits(EndCause("ok", save))
    /\ UNCHANGED <<client, dispatcher, variant, healthy,
                   gateway, replies, acked, persisted>>

\* ------------------------------------------------ approval_chat_daemon_v2
\* the filter of poll_once, lines 355-359
NotAgent(m) == m.sender # "agent"
NewMessages(messages, last_check) ==
    SelectSeq(messages,
              LAMBDA m : NotAgent(m)
                         /\ (last_check = None \/ NewerThan(m, last_check)))

\* state['last_checks'][request_id] = now
AdvanceToNow(st, r, t) == [st EXCEPT !.last_checks[r] = t]

\* a poll_once that goes on whatever api_get returned
GotAnything(outcome) == TRUE
\* poll_once, lines 334-335: `if data is None: return state` is not taken
GotData(outcome) == outcome = "ok"

\* run and poll_once, lines 328-343: the sleep is over, poll_once starts and
\* makes the pending-approvals call
V2PollOnce(outcome) ==
    /\ variant = "v2"
    /\ phase = "idle"
    /\ batchOf' = "none"
    /\ batchAcked' = {}
    /\ batchFailed' = {}
    /\ LET found == PendingFilter(ApprovalsResponse)
       IN  CASE GotData(outcome) ->
                  /\ state' = SetLastPoll(state, clock)
                  /\ listed' = Listed("ok", found)
                  /\ IF found = <<>>
                     THEN /\ fresh' = FALSE
                          /\ UNCHANGED <<phase, now, pending>>
                     ELSE /\ phase' = "approval"
                          /\ now' = clock
                          /\ pending' = found
                          /\ UNCHANGED fresh
             [] OTHER ->
                  \* api_get returned None, or an exception left poll_once
                  \* and run caught it
                  /\ listed' = Listed(IF Raises(outcome) THEN "raised"
                                      ELSE "unavailable", <<>>)
                  /\ fresh' = FALSE
                  /\ UNCHANGED <<phase, now, pending, state>>
    /\ UNCHANGED <<client, dispatcher, variant, healthy, exit,
                   gateway, replies, disk, batch, attempt, acked,
                   persisted>>

\* poll_once, lines 345-364: the messages call of the next request
V2GetMessages(outcome, order) ==
    /\ variant = "v2"
    /\ phase = "approval"
    /\ pending # <<>>
    /\ CASE outcome = "ok" ->
              LET last_check == state.last_checks[cur]
                  new_messages == NewMessages(MessagesResponse(cur, order),
                                              last_check)
              IN  /\ batchOf' = cur
                  /\ batchAcked' = {}
                  /\ batchFailed' = {}
                  /\ IF new_messages = <<>>
                     THEN NextApproval
                     ELSE /\ batch' = new_messages
                          /\ phase' = "send"
                          /\ UNCHANGED <<now, fresh, pending, attempt>>
         [] outcome = "error" ->
              /\ NextApproval
              /\ UNCHANGED batchHistory
         [] OTHER ->
              \* an exception: poll_once is left, run catches it
              /\ ToIdle
              /\ UNCHANGED batchHistory
    /\ UNCHANGED <<client, dispatcher, variant, healthy, exit,
                   gateway, replies, state, disk, acked, persisted,
                   listed>>

\* poll_once, lines 366-382: the reply to the next message of the batch
V2PostReply(outcome) ==
    /\ variant = "v2"
    /\ phase = "send"
    /\ LET msg == Head(batch)
       IN  /\ replies' = IF Reached(outcome)
                         THEN Accept(cur, msg.id) ELSE replies
           /\ acked' = IF outcome = "ok"
                       THEN acked \cup {<<cur, msg.id>>} ELSE acked
           /\ batchAcked' = IF outcome = "ok"
                            THEN batchAcked \cup {msg.id} ELSE batchAcked
           /\ batchFailed' = IF outcome \in {"error", "lost"}
                             THEN batchFailed \cup {msg.id} ELSE batchFailed
           /\ IF Raises(outcome)
              THEN \* an exception: poll_once is left, run catches it
                   ToIdle
              ELSE /\ batch' = Tail(batch)
                   /\ phase' = IF Len(batch) > 1 THEN "send" ELSE "mark"
                   /\ UNCHANGED <<now, fresh, pending, attempt>>
    /\ UNCHANGED <<client, dispatcher, variant, healthy, exit,
                   gateway, state, disk, persisted, batchOf, listed>>

\* poll_once, lines 384-385: the batch is done, the checkpoint is written;
\* an IOError of save_state leaves poll_once and run catches it
V2Checkpoint(save) ==
    /\ variant = "v2"
    /\ phase = "mark"
    /\ LET new == AdvanceToNow(state, cur, now)
       IN  /\ disk' = SaveState(disk, new, save)
           /\ persisted' = IF save = "ok"
                           THEN persisted \cup {<<cur, id>> : id \in batchAcked}
                           ELSE persisted
           /\ IF save = "killed"
              THEN ProcessEnds
              ELSE /\ state' = new
                   /\ IF save = "ok" THEN NextApproval ELSE ToIdle
                   /\ UNCHANGED <<batchHistory, listed>>
    /\ Exits("killed")
    /\ UNCHANGED <<client, dispatcher, variant, healthy,
                   gateway, replies, acked>>

\* poll_once, line 387: every pending request has been handled
V2Return ==
    /\ variant = "v2"
    /\ phase = "approval"
    /\ pending = <<>>
    /\ ToIdle
    /\ UNCHANGED <<client, dispatcher, variant, healthy, exit,
                   gateway, replies, state, disk, history>>

\* ------------------------------------------------------------ environment
\* the daemon sleeps, or is about to fetch the messages of a request
GatewayTurn ==
    \/ phase = "idle"
    \/ phase = "approval" /\ pending # <<>> /\ attempt = 1

\* time passes
Tick ==
    /\ GatewayTurn
    /\ clock < MaxT
    /\ clock' = clock + 1
    /\ UNCHANGED <<client, dispatcher, variant, healthy, exit,
                   msgs, status, replies, phase, now, state, disk,
                   pending, batch, attempt, fresh, history>>

\* somebody posts a chat message on request r; the gateway stamps it
PostMessage(r, kind) ==
    /\ GatewayTurn
    /\ status[r] # "absent"
    /\ Len(msgs[r]) < MaxMsgs
    /\ msgs' = [msgs EXCEPT ![r] = Append(@,
                   [id |-> Len(@) + 1, sender |-> kind[1],
                    created_at |-> clock, text |-> kind[2]])]
    /\ replies' = [replies EXCEPT ![r] = Append(@, 0)]
    /\ UNCHANGED <<client, dispatcher, variant, healthy, exit,
                   clock, status, phase, now, state, disk, pending,
                   batch, attempt, fresh, history>>

\* the human decides request r
Decide(r) ==
    /\ GatewayTurn
    /\ status[r] = "pending"
    /\ status' = [status EXCEPT ![r] = "approved"]
    /\ UNCHANGED <<client, dispatcher, variant, healthy, exit,
                   clock, msgs, replies, phase, now, state, disk,
                   pending, batch, attempt, fresh, history>>

\* the process is killed: its memory is lost, the file stays
Down ==
    /\ ProcessEnds
    /\ exit' = "killed"
    /\ UNCHANGED <<client, dispatcher, variant, healthy,
                   gateway, disk, acked, persisted>>

\* the process dies, at any point of a cycle or between cycles
Crash ==
    /\ phase # "down"
    /\ Down
    /\ UNCHANGED replies

\* the process dies after the gateway stored the reply of send_message and
\* before _save_state ran
CrashAfterSend ==
    /\ variant \in ClassDaemons
    /\ phase = "send"
    /\ Head(batch).text # "blank"
    /\ replies' = Accept(cur, Head(batch).id)
    /\ Down

\* KeyboardInterrupt, at any point of a cycle or during the sleep.
\* run_continuous of the class catches it around the loop and calls
\* _save_state before it returns; run of v2 catches it around poll_once
\* and breaks, and does not catch it around the sleep: neither way saves
Interrupt(save) ==
    /\ phase # "down"
    /\ disk' = IF variant \in ClassDaemons
               THEN SaveState(disk, state, save)
               ELSE disk
    /\ ProcessEnds
    /\ exit' = "interrupted"
    /\ UNCHANGED <<client, dispatcher, variant, healthy,
                   gateway, replies, acked, persisted>>

\* a new process: __init__ calls _load_state
Restart ==
    /\ phase = "down"
    /\ phase' = "idle"
    /\ state' = LoadState(disk)
    /\ fresh' = TRUE
    /\ exit' = "none"
    /\ UNCHANGED <<client, dispatcher, variant, healthy,
                   gateway, replies, now, disk, pending, batch,
                   attempt, history>>

\* --------------------------------------------------------- specification
InitDaemon ==
    /\ variant \in Variants
    /\ healthy = FALSE
    /\ clock = 0
    /\ msgs = [r \in Requests |-> <<>>]
    /\ status = [r \in Requests |-> IF r = "R1" THEN "pending" ELSE "absent"]
    /\ replies = [r \in Requests |-> <<>>]
    /\ phase = "idle"
    /\ now = None
    /\ disk = NoFile
    /\ state = LoadState(disk)
    /\ pending = <<>>
    /\ batch = <<>>
    /\ attempt = 1
    /\ acked = {}
    /\ persisted = {}
    /\ batchOf = "none"
    /\ batchAcked = {}
    /\ batchFailed = {}
    /\ fresh = TRUE
    /\ listed = NotListed
    /\ exit = "none"
    /\ inbox = <<>>
    /\ delivery = NoDelivery
    /\ call = NoCall
    /\ returned = NoReturn

\* the daemons of src/ deliver by send_message and have no webhook endpoint
Init == InitDaemon /\ notify_url = NoUrl

Next ==
    \/ PollOnce
    \/ \E o \in GetOutcomes, s \in SaveOutcomes : GetPendingApprovals(o, s)
    \/ \E o \in GetOutcomes, ord \in Orders : ProcessApproval(o, ord)
    \/ SkipBlank
    \/ \E o \in PostOutcomes, s \in SaveOutcomes : SendMessage(o, s)
    \/ \E s \in SaveOutcomes : FinishPoll(s)
    \/ \E o \in GetOutcomes : V2PollOnce(o)
    \/ \E o \in GetOutcomes, ord \in Orders : V2GetMessages(o, ord)
    \/ \E o \in PostOutcomes : V2PostReply(o)
    \/ \E s \in SaveOutcomes : V2Checkpoint(s)
    \/ V2Return
    \/ Tick
    \/ \E r \in Requests, k \in MsgKinds : PostMessage(r, k)
    \/ \E r \in Requests : Decide(r)
    \/ Crash
    \/ CrashAfterSend
    \/ \E s \in {"ok"} \cup SaveFailures : Interrupt(s)
    \/ Restart

Spec == Init /\ [][Next]_vars

\* ------------------------------------------------------------------ claims
\* the chat message id of request r
Msg(r, id) == msgs[r][id]

\* C1: in universal_v2, a message that was delivered and whose checkpoint
\* reached the state file is never selected as new again, in this process or
\* after a restart.
C1_NoDuplicateDelivery ==
    (variant = "universal_v2" /\ phase = "send") =>
        \A i \in 1..Len(batch) : <<cur, batch[i].id>> \notin persisted

\* C2: when the reply to a message failed in a cycle, the checkpoint of its
\* request is below the message's created_at when the cycle has ended.
C2_NoLostMessage ==
    (phase = "idle" /\ batchOf # "none") =>
        \A id \in batchFailed :
            state.last_checks[batchOf] < Msg(batchOf, id).created_at

\* C3: from universal_v2 the gateway receives at most one agent reply per
\* user message.
C3_AtMostOneReply ==
    variant = "universal_v2" =>
    \A r \in Requests : \A i \in 1..Len(replies[r]) : replies[r][i] <= 1

\* C4: a checkpoint is the created_at of a message of its request whose
\* reply the gateway acknowledged.
C4_CheckpointIsAcked ==
    \A r \in Requests :
        state.last_checks[r] # None =>
            \E i \in 1..Len(msgs[r]) :
                /\ <<r, i>> \in acked
                /\ Msg(r, i).created_at = state.last_checks[r]

\* C5: after a batch in which a message was delivered, the checkpoint is the
\* greatest created_at among the delivered messages of the batch.
C5_CheckpointIsMaxDelivered ==
    (phase \in {"approval", "idle"} /\ batchOf # "none" /\ batchAcked # {}) =>
        state.last_checks[batchOf] =
            Max({Msg(batchOf, id).created_at : id \in batchAcked})

\* C6: in universal_v2, no step of a running daemon replaces a checkpoint by
\* an earlier one.
C6_CheckpointMonotone ==
    [][\A r \in Requests :
          (variant = "universal_v2" /\ state.last_checks[r] # None
             /\ phase' # "down") =>
              state'.last_checks[r] >= state.last_checks[r]]_vars

\* C7: only messages whose sender is user are selected as new, and only
\* such messages are answered.
C7_OnlyUserMessages ==
    /\ phase = "send" => \A i \in 1..Len(batch) : batch[i].sender = "user"
    /\ \A r \in Requests : \A i \in 1..Len(msgs[r]) :
          replies[r][i] > 0 => Msg(r, i).sender = "user"

\* a step in which the messages call of request Head(pending) was answered
Fetched ==
    /\ phase = "approval"
    /\ pending # <<>>
    /\ batchOf # cur
    /\ batchOf' = cur

C9_FirstFetchSelectsAll ==
    [][(Fetched /\ state.last_checks[cur] = None) =>
          \A i \in 1..Len(msgs[cur]) :
              Msg(cur, i).sender = "user" => Msg(cur, i) \in Range(batch')]_vars

\* C10: in universal_v2, the new messages of a request are answered in
\* ascending created_at order, whatever order the gateway lists them in.
C10_AscendingOrder ==
    (variant = "universal_v2" /\ phase = "send") =>
        \A i, j \in 1..Len(batch) :
            i < j => batch[i].created_at <= batch[j].created_at

\* ------------------------------------------------------------ C11 .. C20
\* a new process starts: __init__ has loaded the state file
Restarted == phase = "down" /\ phase' = "idle"

\* the user messages of request r that are newer than c
UserNewer(r, c) == {m \in Range(msgs[r]) : IsUser(m) /\ m.created_at > c}

\* process_approval makes a POST for message m (it skips a blank text)
Answered(m) == m.text # "blank"

\* the first fetch of the head request by a process of universal_v2 that
\* loaded a checkpoint for it
FreshFetch ==
    /\ variant = "universal_v2"
    /\ fresh
    /\ Fetched
    /\ state.last_checks[cur] # None

\* C11 as stated: a fresh process that loaded last_checks[R] = c forwards, on
\* its first poll of R, exactly the user messages of R with created_at > c:
\* it selects them all and each of them is answered
C11_ForwardsExactlyNewer ==
    [][FreshFetch =>
         /\ Range(batch') = UserNewer(cur, state.last_checks[cur])
         /\ \A m \in Range(batch') : Answered(m)]_vars

\* C11 amended: a new process holds the last_checks of the state file; on
\* its first poll of R it selects exactly the user messages of R with
\* created_at > c, and the gateway receives a reply only to a selected
\* message whose text is not blank
C11_RestartSelectsNewer ==
    [][/\ Restarted /\ disk.kind = "json"
            => state'.last_checks = disk.content.last_checks
       /\ FreshFetch
            => Range(batch') = UserNewer(cur, state.last_checks[cur])
       /\ \A r \in Requests :
            (variant = "universal_v2" /\ fresh
             /\ Len(replies'[r]) = Len(replies[r])
             /\ replies'[r] # replies[r])
            => /\ phase = "send"
               /\ r = cur
               /\ Answered(Head(batch))
               /\ replies' = Accept(cur, Head(batch).id)]_vars

\* a restarted universal_v2 has fetched R on its first cycle: a user message
\* at or below the loaded checkpoint is left out, a newer one is selected
C11_Witness ==
    /\ variant = "universal_v2"
    /\ fresh
    /\ phase = "send"
    /\ batchAcked = {}
    /\ batchFailed = {}
    /\ state.last_checks[cur] # None
    /\ \E m \in Range(msgs[cur]) :
          IsUser(m) /\ m.created_at <= state.last_checks[cur]
          /\ m \notin Range(batch)
    /\ \E m \in Range(batch) : m.created_at > state.last_checks[cur]

\* the process stops, at any point
Stopped == phase # "down" /\ phase' = "down"

\* C12: in universal_v2, whenever the process stops, what _load_state loads
\* from the state file is the last_checks the process held, that is, per
\* request the created_at of the last message whose reply was acknowledged;
\* a restart never starts from emptied checkpoints
C12_CheckpointSurvivesStop ==
    [][(variant = "universal_v2" /\ Stopped)
         => LoadState(disk').last_checks = state.last_checks]_vars

\* ---- universal_v2 with a gateway that recovers: from some point on every
\* call succeeds; the state file can be written and nobody stops the process
OutcomesNow(outcomes) == IF healthy THEN {"ok"} ELSE outcomes

\* the gateway recovers
Recover ==
    /\ ~healthy
    /\ healthy' = TRUE
    /\ UNCHANGED <<client,
                   dispatcher, variant, exit, gateway, replies, phase, now,
                   state, disk,
                   pending, batch, attempt, fresh, history>>

InitLive == Init /\ variant = "universal_v2"

DaemonStep ==
    \/ PollOnce
    \/ \E o \in OutcomesNow(GetOutcomes) : GetPendingApprovals(o, "ok")
    \/ \E o \in OutcomesNow(GetOutcomes) : ProcessApproval(o, "asc")
    \/ SkipBlank
    \/ \E o \in OutcomesNow(PostOutcomes) : SendMessage(o, "ok")
    \/ FinishPoll("ok")

\* a chat message with a created_at above '2000-01-01T00:00:00Z' and above
\* that of every earlier message
PostDated(k) ==
    /\ clock > DefaultLastCheck
    /\ \A m \in Range(msgs["R1"]) : m.created_at < clock
    /\ PostMessage("R1", k)

NextLive ==
    \/ DaemonStep
    \/ Recover
    \/ Tick
    \/ \E k \in MsgKinds : PostDated(k)

\* the loop of run_continuous keeps running and time passes
SpecLive ==
    /\ InitLive /\ [][NextLive]_vars
    /\ WF_vars(DaemonStep) /\ WF_vars(Recover) /\ SF_vars(Tick)

\* C13: when from some point on every gateway call succeeds and the loop
\* keeps running, every non-blank user message of a request that stays
\* pending is eventually delivered
C13_EventuallyDelivered ==
    \A i \in 1..MaxMsgs :
        (Len(msgs["R1"]) >= i /\ IsUser(Msg("R1", i)) /\ Answered(Msg("R1", i)))
            ~> (<<"R1", i>> \in acked)

\* a gateway call fails with a URLError or HTTPError and no further attempt
\* follows: the call reports the resource unavailable
GivesUp ==
    /\ attempt' # attempt + 1
    /\ \/ \E s \in SaveOutcomes : GetPendingApprovals("error", s)
       \/ \E ord \in Orders : ProcessApproval("error", ord)
       \/ \E s \in SaveOutcomes : SendMessage("error", s)
       \/ V2PollOnce("error")
       \/ \E ord \in Orders : V2GetMessages("error", ord)
       \/ V2PostReply("error")

\* C14: in universal_v2 and v2 a gateway call reports the resource
\* unavailable only after the third attempt failed, and no call makes a
\* fourth attempt
C14_RetrySchedule ==
    [][(variant = "universal_v2" \/ variant = "v2")
         => (attempt' <= Len(RETRY_DELAYS)
             /\ (GivesUp => attempt = Len(RETRY_DELAYS)))]_vars

\* a gateway call that ends with outcome o has the effect of an unavailable
\* resource: get_pending_approvals returns an empty list, a failed
\* get_messages makes the cycle go on with the next approval, a failed
\* send_message makes the batch go on with the next message, the process
\* keeps running and no checkpoint changes
TreatedAsUnavailable(o) ==
    /\ (GetPendingApprovals(o, "ok") \/ V2PollOnce(o))
         => (listed'.result = "unavailable"
             /\ state'.last_checks = state.last_checks)
    /\ (\E ord \in Orders : ProcessApproval(o, ord) \/ V2GetMessages(o, ord))
         => (phase' = "approval" /\ pending' = Tail(pending)
             /\ state'.last_checks = state.last_checks)
    /\ (SendMessage(o, "ok") \/ V2PostReply(o))
         => (phase' \in {"send", "approval", "mark"}
             /\ batchFailed' = batchFailed \cup {Head(batch).id}
             /\ state'.last_checks = state.last_checks)

\* a network error: a URLError or HTTPError, or a response that does not
\* arrive in time
NetworkErrors == {"error", "lost", "timeout"}

\* C15: in universal_v2 and multi_agent, a call that ends its last attempt
\* with a network error gives an unavailable result and raises nothing
C15_NetworkErrorIsUnavailable ==
    [][(variant \in ClassDaemons /\ attempt' # attempt + 1)
         => \A o \in NetworkErrors : TreatedAsUnavailable(o)]_vars

\* C16: a response that is not the expected JSON is treated as an
\* unavailable resource: nothing is raised, the request or the cycle is
\* skipped, the daemon keeps running and no checkpoint changes
C16_MalformedIsUnavailable ==
    [][TreatedAsUnavailable("malformed")]_vars

\* ---- universal_v2 and v2 with two approval requests: R1 is pending, R2 is
\* pending or decided; each request gets at most one chat message, a
\* non-blank user message; the state file can be written and nobody kills
\* the process
InitTwo ==
    /\ variant \in {"universal_v2", "v2"}
    /\ healthy = FALSE
    /\ clock = 0
    /\ msgs = [r \in Requests |-> <<>>]
    /\ status \in [Requests -> {"pending", "approved"}]
    /\ status["R1"] = "pending"
    /\ replies = [r \in Requests |-> <<>>]
    /\ phase = "idle"
    /\ now = None
    /\ disk = NoFile
    /\ state = LoadState(disk)
    /\ pending = <<>>
    /\ batch = <<>>
    /\ attempt = 1
    /\ acked = {}
    /\ persisted = {}
    /\ batchOf = "none"
    /\ batchAcked = {}
    /\ batchFailed = {}
    /\ fresh = TRUE
    /\ listed = NotListed
    /\ exit = "none"
    /\ notify_url = NoUrl
    /\ inbox = <<>>
    /\ delivery = NoDelivery
    /\ call = NoCall
    /\ returned = NoReturn

\* the first chat message of request r
PostFirst(r) == msgs[r] = <<>> /\ PostMessage(r, <<"user", "text">>)

NextTwo ==
    \/ PollOnce
    \/ \E o \in GetOutcomes : GetPendingApprovals(o, "ok")
    \/ \E o \in GetOutcomes, ord \in Orders : ProcessApproval(o, ord)
    \/ \E o \in PostOutcomes : SendMessage(o, "ok")
    \/ FinishPoll("ok")
    \/ \E o \in GetOutcomes : V2PollOnce(o)
    \/ \E o \in GetOutcomes, ord \in Orders : V2GetMessages(o, ord)
    \/ \E o \in PostOutcomes : V2PostReply(o)
    \/ V2Checkpoint("ok")
    \/ V2Return
    \/ Tick
    \/ \E r \in Requests : PostFirst(r)
    \/ \E r \in Requests : Decide(r)

SpecTwo == InitTwo /\ [][NextTwo]_vars

\* the pending-approvals call of a cycle returned the list of the gateway
ListedOk ==
    /\ \/ \E s \in SaveOutcomes : GetPendingApprovals("ok", s)
       \/ V2PollOnce("ok")
    /\ listed'.result = "ok"

\* C17: the approvals that a cycle gets from the pending-approvals call are
\* those whose status in the response is pending, and the cycle processes
\* no other approval
C17_OnlyPendingProcessed ==
    /\ [][ListedOk
            => /\ \A r \in Requests :
                    r \in Range(listed'.found) <=> status[r] = "pending"
               /\ pending' = listed'.found]_vars
    /\ [](Range(pending) \subseteq Range(listed.found))
    /\ [](batchOf # "none" => batchOf \in Range(listed.found))

\* the response listed the decided R2 and the pending R1, and the cycle is
\* about to process R1 alone
C17_Witness ==
    /\ phase = "approval"
    /\ status["R2"] = "approved"
    /\ listed = Listed("ok", <<"R1">>)
    /\ pending = <<"R1">>

\* the fetch of the messages of the head request fails for good
FetchFails ==
    /\ attempt' # attempt + 1
    /\ \E o \in GetOutcomes \ {"ok"}, ord \in Orders :
          ProcessApproval(o, ord) \/ V2GetMessages(o, ord)

\* C18: when the fetch of the messages of one pending request fails, its
\* checkpoint stays, the cycle goes on with the other pending requests, and
\* handling a request never writes the checkpoint of another one
C18_FetchFailureIsolated ==
    [][/\ FetchFails
            => /\ state'.last_checks = state.last_checks
               /\ Tail(pending) # <<>>
                    => (phase' = "approval" /\ pending' = Tail(pending))
       /\ (phase \in {"approval", "send", "mark"} /\ pending # <<>>)
            => \A r \in Requests \ {cur} :
                   state'.last_checks[r] = state.last_checks[r]]_vars

\* C19: when the gateway returns no pending approval, the cycle ends having
\* updated last_poll only: no fetch, no reply, no delivery, and every
\* last_checks entry as before
C19_ZeroPendingOnlyLastPoll ==
    [][(ListedOk /\ \A r \in Requests : status[r] # "pending")
         => /\ state' = [state EXCEPT !.last_poll = clock]
            /\ phase' = "idle"
            /\ batch' = <<>>
            /\ batchOf' = "none"
            /\ replies' = replies
            /\ acked' = acked]_vars

\* a cycle has ended on an empty pending list while R1, decided by now, has
\* a checkpoint
C19_Witness ==
    /\ phase = "idle"
    /\ listed = Listed("ok", <<>>)
    /\ status["R1"] = "approved"
    /\ state.last_checks["R1"] # None
    /\ state.last_poll = clock

\* C20: in universal_v2 and multi_agent no error ends the daemon: the
\* process stops only when it is killed or interrupted
C20_OnlyInterruptStops == variant \in ClassDaemons => exit # "error"

\* ---------------------------------------------------------- C21 .. C30
\* C21: when an interrupt ends the daemon and the state file can be
\* written, a later load of the file gives the state the process had in
\* memory
C21_InterruptSavesState == [][Interrupt("ok") => LoadState(disk') = state]_vars

\* a poll cycle is in flight
InFlight(p) == p \in {"list", "approval", "send", "mark"}
\* poll_once is called
CycleStarts == PollOnce \/ \E o \in GetOutcomes : V2PollOnce(o)
\* the cycle in flight is over
CycleEnds == InFlight(phase) /\ ~InFlight(phase')

\* C22: in universal_v2 and v2 a poll cycle starts only while the daemon
\* sleeps with no cycle in flight and nothing left of the previous one, and
\* every cycle that ends, with an error or not, is followed by the sleep
\* unless the process was killed or interrupted
C22_SingleFlight ==
    [][(variant = "universal_v2" \/ variant = "v2")
         => /\ CycleStarts
                => /\ phase = "idle" /\ now = None
                   /\ pending = <<>> /\ batch = <<>>
            /\ CycleEnds
                => phase' = "idle" \/ exit' \in {"killed", "interrupted"}]_vars
\* a cycle of universal_v2 ended with an exception and the daemon sleeps
C22_Witness ==
    /\ variant = "universal_v2"
    /\ phase = "idle"
    /\ listed.result = "raised"

\* C23: in universal_v2 and multi_agent an interrupt ends the process only
\* between cycles: never while a poll cycle is in flight
C23_InterruptBetweenCycles ==
    [][(variant \in ClassDaemons /\ Stopped /\ exit' = "interrupted")
         => ~InFlight(phase)]_vars

\* C24: whenever the daemon sleeps between cycles, the state file holds
\* the state the daemon has in memory
C24_FileEqualsMemoryAsleep == phase = "idle" => LoadState(disk) = state

\* C25: in universal_v2 and v2, when the process is killed, during a save
\* or not, a later load of the state file gives what a load gave before the
\* save, or the file holds the complete state that was being saved
C25_AtomicRewrite ==
    [][((variant = "universal_v2" \/ variant = "v2")
            /\ Stopped /\ exit' = "killed")
         => (LoadState(disk') = LoadState(disk) \/ disk'.kind = "json")]_vars

\* a step in which the write of the state file failed
FailedSave ==
    \E s \in SaveFailures :
        \/ GetPendingApprovals("ok", s) /\ phase' # "approval"
        \/ SendMessage("ok", s)
        \/ FinishPoll(s)
        \/ V2Checkpoint(s)

\* C26: when the write of the state file fails the daemon keeps running
\* with its state in memory, and every write that succeeds afterwards puts
\* the whole state in memory into the file
C26_SaveFailureKeepsState ==
    [][/\ FailedSave => (exit' = "none" /\ state' # EmptyState)
       /\ (exit' = "none" /\ disk' # disk /\ disk'.kind = "json")
            => disk'.content = state']_vars

\* a running daemon sets last_poll to another value
LastPollUpdated ==
    /\ phase # "down"
    /\ exit' = "none"
    /\ state'.last_poll # state.last_poll

\* C27: in universal_v2 and v2 last_poll is updated only by a step that
\* completes a poll cycle whose pending-approvals call succeeded: not by a
\* cycle whose call was unavailable or raised, and not by a cycle still in
\* flight; the update changes no last_checks entry
C27_LastPollOnlyByCompletedCycle ==
    [][((variant = "universal_v2" \/ variant = "v2") /\ LastPollUpdated)
         => /\ listed'.result = "ok"
            /\ phase' = "idle"
            /\ state'.last_checks = state.last_checks]_vars

\* universal_v2 fetches the messages of a request whose checkpoint is the
\* created_at of a delivered message, and the gateway holds no user message
\* newer than the checkpoint
QuietFetch ==
    /\ variant = "universal_v2"
    /\ Fetched
    /\ state.last_checks[cur] # None
    /\ \E a \in acked :
          a[1] = cur /\ Msg(cur, a[2]).created_at = state.last_checks[cur]
    /\ UserNewer(cur, state.last_checks[cur]) = {}

\* C28: in universal_v2 a fetch that follows a successful delivery and
\* finds no newer user message selects nothing, delivers nothing and leaves
\* the state and the state file as they are; the end of the cycle changes
\* no last_checks entry
C28_QuietCycleChangesNothing ==
    [][/\ QuietFetch
            => /\ batch' = <<>>
               /\ phase' = "approval"
               /\ replies' = replies
               /\ acked' = acked
               /\ state' = state
               /\ disk' = disk
       /\ (variant = "universal_v2" /\ pending = <<>> /\ phase = "approval"
              /\ phase' = "idle")
            => /\ state'.last_checks = state.last_checks
               /\ replies' = replies]_vars
\* universal_v2 has fetched the messages of R1 after a delivery, found
\* nothing newer than the checkpoint and answered nothing
C28_Witness ==
    /\ variant = "universal_v2"
    /\ phase = "approval"
    /\ pending = <<>>
    /\ batchOf = "R1"
    /\ batchAcked = {}
    /\ batchFailed = {}
    /\ state.last_checks["R1"] # None
    /\ \E a \in acked :
          a[1] = "R1" /\ Msg("R1", a[2]).created_at = state.last_checks["R1"]
    /\ UserNewer("R1", state.last_checks["R1"]) = {}

\* the seconds the daemon sleeps between cycles when no --poll-interval is
\* given
poll_interval ==
    IF variant = "v2" THEN POLL_INTERVAL ELSE DefaultPollInterval

\* C30: the timeout of a gateway call is strictly shorter than the poll
\* interval the daemon runs with
C30_TimeoutBelowInterval == API_TIMEOUT < poll_interval

\* ------------------------------------------- the delivery dispatcher
\* deliver(approval, message) -> {delivered, via}: the webhook when an
\* endpoint is configured and accepts the notification, else the inbox file

\* entries the inbox file holds at most
MaxInbox == 3

\* how each POST of the webhook notification can end, one per RETRY_DELAYS
PostResults == {"2xx", "failed"}
WebhookPosts == [1..Len(RETRY_DELAYS) -> PostResults]
\* how the append to the inbox file can end
InboxWrites == {"ok", "io_error"}

\* the InboxEntry of a chat message of request r created at t
InboxEntry(r, t) == [request_id |-> r, created_at |-> t]

\* an endpoint is configured and one of the attempts got a 2xx response
WebhookAccepts(url, posts) ==
    url # NoUrl /\ \E i \in DOMAIN posts : posts[i] = "2xx"

\* a dispatcher with the webhook path only
WebhookOnly(url, posts, write) ==
    [delivered |-> WebhookAccepts(url, posts), via |-> "webhook"]
\* what deliver returns
DeliverResult(url, posts, write) ==
    IF WebhookAccepts(url, posts)
    THEN [delivered |-> TRUE, via |-> "webhook"]
    ELSE [delivered |-> write = "ok", via |-> "inbox"]

\* deliver: the triggering message of request r, created at t
Deliver(r, t, posts, write) ==
    /\ Len(inbox) < MaxInbox
    /\ delivery' = DeliverResult(notify_url, posts, write)
    /\ inbox' = IF delivery'.via = "inbox" /\ delivery'.delivered
                THEN Append(inbox, InboxEntry(r, t))
                ELSE inbox
    /\ UNCHANGED <<client, notify_url, variant, healthy, exit, gateway, replies,
                   phase, now, state, disk, pending, batch, attempt, fresh,
                   history>>

InitDeliver ==
    /\ InitDaemon
    /\ variant = "universal_v2"
    /\ notify_url \in {NoUrl, "url"}

NextDeliver ==
    \E r \in Requests, t \in 0..MaxT, posts \in WebhookPosts,
       write \in InboxWrites : Deliver(r, t, posts, write)

SpecDeliver == InitDeliver /\ [][NextDeliver]_vars

\* C29: when no notify_url is configured, deliver reports via = inbox, and
\* when the write of the inbox file succeeds it has appended the entry of
\* the message to the inbox and reports delivered = true
C29_FallbackToInbox ==
    [][\A r \in Requests, t \in 0..MaxT, posts \in WebhookPosts,
          write \in InboxWrites :
          (notify_url = NoUrl /\ Deliver(r, t, posts, write))
            => /\ delivery'.via = "inbox"
               /\ write = "ok"
                    => /\ delivery'.delivered
                       /\ inbox' = Append(inbox, InboxEntry(r, t))]_vars
\* no endpoint is configured and a message was delivered to the inbox
C29_Witness ==
    /\ notify_url = NoUrl
    /\ inbox # <<>>
    /\ delivery = [delivered |-> TRUE, via |-> "inbox"]

\* ---------------------------------- kotubot_approval_client.py, the client
\* requests a poll returns at most
MaxPolled == 2

\* self.agent_id of the client
AgentId == "kotubot"
\* "missing" stands for a key the request does not have
PolledStatuses == {"pending", "approved", "denied", "expired", "missing"}
PolledAgents == {AgentId, "other", "missing"}
PolledSlugs == {"trade-coffee-1", "other-deal", "missing"}
PolledRequests ==
    [status : PolledStatuses, agent_id : PolledAgents, deal_slug : PolledSlugs]
\* the lists the gateway can answer a poll with
PolledLists ==
    UNION {[1..n -> PolledRequests] : n \in 0..MaxPolled}

\* how a call of the gateway can end for the client: an answer, a URLError
\* or HTTPError, a read timeout, or a body that is not JSON
ClientOutcomes == {"ok", "error", "timeout", "malformed"}
\* what the gateway answers to POST /api/bot/approval-requests
Decisions == {[approved |-> TRUE, status |-> "approved"],
              [approved |-> FALSE, status |-> "pending"]}

\* what a call of the client gives back: a dict, a list, or an exception
ReturnsDict(d) == [kind |-> "dict", dict |-> d, list |-> <<>>]
ReturnsList(l) == [kind |-> "list", dict |-> NoReturn.dict, list |-> l]
ClientRaises == [kind |-> "raised", dict |-> NoReturn.dict, list |-> <<>>]

\* the except clause of request_approval
ErrorResult == [approved |-> FALSE, status |-> "error"]

\* request_approval
RequestApproval(outcome, decision) ==
    /\ call = NoCall
    /\ call' = [name |-> "request_approval", outcome |-> outcome,
                approvals |-> <<>>]
    /\ returned' = CASE outcome = "ok" -> ReturnsDict(decision)
                     [] outcome = "error" -> ReturnsDict(ErrorResult)
                     [] OTHER -> ClientRaises
    /\ UNCHANGED <<dispatcher, variant, healthy, exit, gateway, replies,
                   phase, now, state, disk, pending, batch, attempt, fresh,
                   history>>

\* poll_approvals: data.get('approvals', []), or [] after URLError/HTTPError
PollApprovals(outcome, approvals) ==
    CASE outcome = "ok" -> ReturnsList(approvals)
      [] outcome = "error" -> ReturnsList(<<>>)
      [] OTHER -> ClientRaises

\* req['status'] raises KeyError when a request has no status
HasStatus(l) == \A i \in 1..Len(l) : l[i].status # "missing"

\* a filter that keeps the requests of every agent
AnyAgent(req, wanted) == req.status = wanted
\* the condition of the list comprehensions of get_approved_requests and
\* get_pending_requests
StatusAndAgent(req, wanted) ==
    req.status = wanted /\ req.agent_id = AgentId

\* get_approved_requests ('approved') and get_pending_requests ('pending')
GetRequests(wanted, outcome, approvals) ==
    LET all_requests == PollApprovals(outcome, approvals)
    IN  IF all_requests.kind = "raised" \/ ~HasStatus(all_requests.list)
        THEN ClientRaises
        ELSE ReturnsList(SelectSeq(all_requests.list,
                                   LAMBDA req : StatusAndAgent(req, wanted)))

\* validate_bot_ownership
ValidateBotOwnership(req) == req.agent_id = AgentId

\* process_approved_deals
ProcessApprovedDeals(outcome, approvals) ==
    LET approved == GetRequests("approved", outcome, approvals)
    IN  IF approved.kind = "raised"
        THEN ClientRaises
        ELSE ReturnsList(SelectSeq(approved.list,
                LAMBDA req : /\ req.deal_slug # "missing"
                             /\ req.deal_slug = "trade-coffee-1"
                             /\ ValidateBotOwnership(req)))

\* a call of get_approved_requests, get_pending_requests or
\* process_approved_deals
ClientPoll(name, outcome, approvals) ==
    /\ call = NoCall
    /\ call' = [name |-> name, outcome |-> outcome, approvals |-> approvals]
    /\ returned' =
          CASE name = "get_approved_requests" ->
                   GetRequests("approved", outcome, approvals)
            [] name = "get_pending_requests" ->
                   GetRequests("pending", outcome, approvals)
            [] OTHER -> ProcessApprovedDeals(outcome, approvals)
    /\ UNCHANGED <<dispatcher, variant, healthy, exit, gateway, replies,
                   phase, now, state, disk, pending, batch, attempt, fresh,
                   history>>

PollCalls ==
    {"get_approved_requests", "get_pending_requests", "process_approved_deals"}

\* the caller has used what the call returned; the client keeps no state
\* between calls
ClientReturns ==
    /\ call # NoCall
    /\ call' = NoCall
    /\ returned' = NoReturn
    /\ UNCHANGED <<dispatcher, variant, healthy, exit, gateway, replies,
                   phase, now, state, disk, pending, batch, attempt, fresh,
                   history>>

InitClient == Init /\ variant = "universal_v2"

NextClient ==
    \/ /\ call = NoCall
       /\ \E o \in ClientOutcomes, d \in Decisions : RequestApproval(o, d)
    \/ /\ call = NoCall
       /\ \E n \in PollCalls, o \in ClientOutcomes, l \in PolledLists :
             ClientPoll(n, o, l)
    \/ ClientReturns

SpecClient == InitClient /\ [][NextClient]_vars

Wanted ==
    IF call.name = "get_pending_requests" THEN "pending" ELSE "approved"
\* the positions of the polled list that hold a request of the client's
\* agent with the wanted status
Owned ==
    {i \in 1..Len(call.approvals) :
        /\ call.approvals[i].status = Wanted
        /\ call.approvals[i].agent_id = AgentId}

\* C32: a list that get_approved_requests or get_pending_requests returns
\* holds exactly the polled requests with the wanted status and the
\* client's agent_id, and a list that process_approved_deals returns holds
\* only approved requests of the client's agent: none of another agent, of
\* no agent or of another status
C32_OwnRequestsOnly ==
    (call.name \in PollCalls /\ call.outcome = "ok" /\ returned.kind = "list")
        => /\ \A i \in 1..Len(returned.list) :
                 /\ returned.list[i].status = Wanted
                 /\ returned.list[i].agent_id = AgentId
                 /\ returned.list[i] \in Range(call.approvals)
           /\ call.name # "process_approved_deals"
                => /\ Len(returned.list) = Cardinality(Owned)
                   /\ \A i \in Owned :
                         call.approvals[i] \in Range(returned.list)
\* get_approved_requests polled an approved request of its agent and an
\* approved one of another agent, and returned one request
C32_Witness ==
    /\ call.name = "get_approved_requests"
    /\ call.outcome = "ok"
    /\ \E i, j \in 1..Len(call.approvals) :
          /\ call.approvals[i].status = "approved"
          /\ call.approvals[i].agent_id = AgentId
          /\ call.approvals[j].status = "approved"
          /\ call.approvals[j].agent_id = "other"
    /\ returned.kind = "list"
    /\ Len(returned.list) = 1

\* C33: in universal_v2, when the request being processed was decided after
\* the list call, the fetch still selects its backlog of newer user
\* messages for this cycle; and a list call that succeeds leaves a decided
\* request out of the cycle
C33_DecidedMidCycle ==
    [][variant = "universal_v2"
         => /\ (Fetched /\ status[cur] # "pending")
                => /\ Range(batch') = UserNewer(cur, LastCheck(state, cur))
                   /\ batch' # <<>> => phase' = "send"
            /\ ListedOk
                => \A r \in Requests :
                      status[r] # "pending" => r \notin Range(pending')]_vars
\* universal_v2 answers the backlog of a request that was decided after the
\* list call of the cycle
C33_Witness ==
    /\ variant = "universal_v2"
    /\ phase = "send"
    /\ status[cur] = "approved"
    /\ batch # <<>>

\* the pending-approvals call of a cycle of v2 gave no data
V2Unavailable == \E o \in GetOutcomes \ {"ok"} : V2PollOnce(o)

\* C34: in v2, a cycle whose pending-approvals call gave no data leaves
\* last_poll and every last_checks entry as they are, fetches and answers
\* no message and writes nothing to the state file
C34_UnavailableLeavesState ==
    [][V2Unavailable
         => /\ state' = state
            /\ disk' = disk
            /\ replies' = replies
            /\ acked' = acked
            /\ phase' = "idle"
            /\ pending' = <<>>
            /\ batch' = <<>>]_vars
\* v2 sleeps after a cycle whose list call was unavailable, with the
\* last_poll of an earlier cycle
C34_Witness ==
    /\ variant = "v2"
    /\ phase = "idle"
    /\ listed.result = "unavailable"
    /\ state.last_poll # None
    /\ state.last_poll < clock

\* C35: in a cycle of v2 the checkpoint of a request changes only when the
\* cycle found a batch of new non-agent messages for it, it is then set to
\* the start time of the cycle, and every batch found leads to that update
\* whether or not its replies were posted
C35_V2CheckpointIsCycleStart ==
    [][(variant = "v2" /\ phase # "down" /\ exit' = "none")
         => /\ state'.last_checks # state.last_checks
                => /\ phase = "mark"
                   /\ state'.last_checks =
                          [state.last_checks EXCEPT ![cur] = now]
            /\ phase = "mark" => state'.last_checks[cur] = now
            /\ (phase = "send" /\ phase' # "send") => phase' = "mark"]_vars

\* the user messages of request r whose text is blank
BlankUser(r) == {m \in Range(msgs[r]) : IsUser(m) /\ m.text = "blank"}
\* a class daemon is at a blank message of the batch and goes on
AtBlank ==
    /\ variant \in ClassDaemons
    /\ phase = "send"
    /\ Head(batch).text = "blank"
    /\ exit' = "none"

Missing == -2
\* parseable files that hold no state: {} (and likewise [] or null, which
\* have no 'last_checks' either), and {"last_checks": {}} without last_poll
EmptyObject ==
    [last_checks |-> [r \in Requests |-> Missing], last_poll |-> Missing]
NoLastPoll ==
    [last_checks |-> [r \in Requests |-> None], last_poll |-> Missing]
\* the states a daemon writes with _save_state
SavedStates ==
    [last_checks : [Requests -> {None} \cup 0..MaxT],
     last_poll : {None} \cup 0..MaxT]
\* what the state file can hold when a daemon starts
StateFiles ==
    {NoFile, Truncated}
        \cup {FileOf(st) : st \in SavedStates \cup {EmptyObject, NoLastPoll}}

\* state['last_checks'] exists, state['last_poll'] exists
HasLastChecks(st) == \A r \in Requests : st.last_checks[r] # Missing
HasLastPoll(st) == st.last_poll # Missing

\* the first statement of the handling of an approval,
\* state['last_checks'].get(request_id): a KeyError (TypeError) when the
\* loaded value has no 'last_checks'.  universal_v2 catches it around
\* process_approval and v2 around poll_once, multi_agent catches nothing
ReadLastChecks(r) ==
    LET raised == ~HasLastChecks(state)
        dies == raised /\ variant \in ClassDaemons /\ ~CatchesAll
    IN  /\ phase = "idle"
        /\ phase' = IF dies THEN "down" ELSE "idle"
        /\ state' = IF dies THEN EmptyState ELSE state
        /\ exit' = IF dies THEN "error" ELSE "none"
        /\ batchOf' = IF raised THEN "none" ELSE r
        /\ fresh' = FALSE
        /\ UNCHANGED <<client, dispatcher, variant, healthy, gateway, replies,
                       now, disk, pending, batch, attempt, acked, persisted,
                       batchAcked, batchFailed, listed>>

\* no process runs yet and the state file holds anything
InitLoad ==
    /\ variant \in Variants
    /\ healthy = FALSE
    /\ clock = 0
    /\ msgs = [r \in Requests |-> <<>>]
    /\ status = [r \in Requests |-> IF r = "R1" THEN "pending" ELSE "absent"]
    /\ replies = [r \in Requests |-> <<>>]
    /\ phase = "down"
    /\ now = None
    /\ disk \in StateFiles
    /\ state = EmptyState
    /\ pending = <<>>
    /\ batch = <<>>
    /\ attempt = 1
    /\ acked = {}
    /\ persisted = {}
    /\ batchOf = "none"
    /\ batchAcked = {}
    /\ batchFailed = {}
    /\ fresh = FALSE
    /\ listed = NotListed
    /\ exit = "none"
    /\ notify_url = NoUrl
    /\ inbox = <<>>
    /\ delivery = NoDelivery
    /\ call = NoCall
    /\ returned = NoReturn

NextLoad ==
    \/ Restart
    \/ \E r \in Requests : ReadLastChecks(r)

SpecLoad == InitLoad /\ [][NextLoad]_vars

\* C37: while a daemon runs, its in-memory state has a last_checks mapping
\* and a last_poll entry, whatever the state file held when it was loaded,
\* and no handling of an approval fails on reading last_checks
C37_StateHasShape ==
    /\ phase # "down" => HasLastChecks(state) /\ HasLastPoll(state)
    /\ [][\A r \in Requests : ReadLastChecks(r) => batchOf' = r]_vars

\* ---- the three class daemons, with a gateway and a state file that never
\* fail: every call gives its result at the first attempt and every
\* _save_state writes the file
InitSame ==
    /\ variant \in ClassDaemons
    /\ healthy = FALSE
    /\ clock = 0
    /\ msgs = [r \in Requests |-> <<>>]
    /\ status = [r \in Requests |-> IF r = "R1" THEN "pending" ELSE "absent"]
    /\ replies = [r \in Requests |-> <<>>]
    /\ phase = "idle"
    /\ now = None
    /\ disk = NoFile
    /\ state = LoadState(disk)
    /\ pending = <<>>
    /\ batch = <<>>
    /\ attempt = 1
    /\ acked = {}
    /\ persisted = {}
    /\ batchOf = "none"
    /\ batchAcked = {}
    /\ batchFailed = {}
    /\ fresh = TRUE
    /\ listed = NotListed
    /\ exit = "none"
    /\ notify_url = NoUrl
    /\ inbox = <<>>
    /\ delivery = NoDelivery
    /\ call = NoCall
    /\ returned = NoReturn

NextSame ==
    \/ PollOnce
    \/ GetPendingApprovals("ok", "ok")
    \/ \E ord \in Orders : ProcessApproval("ok", ord)
    \/ SkipBlank
    \/ SendMessage("ok", "ok")
    \/ FinishPoll("ok")
    \/ Tick
    \/ \E r \in Requests, k \in MsgKinds : PostMessage(r, k)
    \/ \E r \in Requests : Decide(r)

SpecSame == InitSame /\ [][NextSame]_vars

\* a step of the daemon, not of the gateway or the clock
DaemonMoves == phase' # phase \/ pending' # pending \/ batch' # batch
\* the step answers message m of request r and moves the checkpoint of r to
\* its created_at, in memory and in the state file
Answers(r, m) ==
    /\ replies' = Accept(r, m.id)
    /\ acked' = acked \cup {<<r, m.id>>}
    /\ state'.last_checks = [state.last_checks EXCEPT ![r] = m.created_at]
    /\ LoadState(disk').last_checks = state'.last_checks
\* the step answers nothing and moves no checkpoint
Quiet ==
    /\ replies' = replies
    /\ acked' = acked
    /\ state'.last_checks = state.last_checks
\* the step selects the messages of the request to answer, in the order the
\* gateway gave them
Selects(r) ==
    \E ord \in Orders :
        LET messages == GetMessages(MessagesResponse(r, ord),
                                    LastCheck(state, r))
        IN  IF messages = <<>>
            THEN phase' = "approval" /\ pending' = Tail(pending)
            ELSE phase' = "send" /\ batch' = messages /\ pending' = pending

====
